---- MODULE Spec2Model ----
(***************************************************************************)
(* A model of the H3-hexagon climate services of qgis-processing:          *)
(*   services/nasa_climate.py      NASAClimateService                      *)
(*   services/noaa_sea_level.py    NOAASeaLevelService                     *)
(*   services/urban_heat_island.py UrbanHeatIslandService                  *)
(*   climate_server.py             the Flask handlers in front of them     *)
(*                                                                         *)
(* Numbers.  Python floats are modelled in fixed point: a coordinate is an *)
(* integer number of thousandths of a degree, a scalar (feet, degrees C,   *)
(* metres) an integer number of thousandths.  round(x, 2) is therefore a   *)
(* rounding to a multiple of 10.  np.sin, np.cos, np.sqrt, np.exp and      *)
(* x ** 0.7 are computed by integer approximations (Bhaskara's sine,       *)
(* integer square root, piecewise-linear tables) that keep the range and   *)
(* the monotonicity of the functions they stand for.                       *)
(*                                                                         *)
(* The h3 library is the environment: a finite universe of cells, each     *)
(* with an id, a centre and a boundary of (lat, lon) vertices.             *)
(***************************************************************************)
EXTENDS Integers, Sequences, FiniteSets, TLC

VARIABLES
  now,    \* the wall clock read by datetime.utcnow() / datetime.now()
  pc,     \* "idle": no call in progress; "done": a call has returned
  op,     \* the operation last invoked
  args,   \* its arguments
  ret,    \* what it returned or raised
  log,    \* the logger lines the call wrote, in order
  requests,  \* the requests in flight on the module-level service instances
  hexagon_list,  \* the list `hexagons` each of them is filling
  analysis_progress,  \* qgis_server.analysis_progress: workflow id -> status
  analysis_results,   \* qgis_server.analysis_results: workflow id -> result
  work_queue,    \* the tasks submitted to `executor` that no thread has taken
  worker_tasks,  \* the tasks the threads of `executor` are running
  started,       \* the workflow ids start_workflow has returned
  response       \* the last answer of a workflow endpoint

\* The state of the requests served side by side.
conc_vars == <<requests, hexagon_list>>

\* The state of the workflows of qgis_server.py.
wf_vars ==
  <<analysis_progress, analysis_results, work_queue, worker_tasks, started,
    response>>

\* What a single call, taken alone, leaves as it is.
env_vars == <<conc_vars, wf_vars>>

vars ==
  <<now, pc, op, args, ret, log, requests, hexagon_list, analysis_progress,
    analysis_results, work_queue, worker_tasks, started, response>>

(***************************************************************************)
(* Bounds of the model.                                                    *)
(***************************************************************************)
MaxClock == 1

\* The largest distance from the urban core at which the heat trend is
\* evaluated on its own, in thousandths of a degree (the core radius is 150).
MaxDist == 300

\* The number of requests served at the same time.
MaxRequests == 2

\* The number of workflows started.  The pool has four threads: up to this
\* number every task finds a free one, past it a task waits in the queue.
MaxWorkflows == 4

(***************************************************************************)
(* Arithmetic helpers.                                                     *)
(***************************************************************************)
Abs(x) == IF x < 0 THEN -x ELSE x

Max(a, b) == IF a >= b THEN a ELSE b

Min(a, b) == IF a <= b THEN a ELSE b

\* round(x, 2) on a value in thousandths: the nearest multiple of 10, a tie
\* going to the even hundredth (Python 3 round).
Round2(x) ==
  LET q == x \div 10
      r == x % 10
  IN  IF r < 5 THEN 10 * q
      ELSE IF r > 5 THEN 10 * (q + 1)
      ELSE IF q % 2 = 0 THEN 10 * q ELSE 10 * (q + 1)

\* np.sin of an angle given in thousandths of a radian, in units of 1/10000
\* (Bhaskara I: sin x = 16x(pi-x) / (5pi^2 - 4x(pi-x)) on [0, pi]).
SinE4(x) ==
  LET pi  == 3142                 \* in thousandths of a radian
      y   == x % 6283
      neg == y > pi
      z   == IF neg THEN y - pi ELSE y
      p   == z * (pi - z)
      num == 16 * p
      den == 5 * pi * pi - 4 * p
      v   == ((num \div 100) * 1000) \div (den \div 1000)
      w   == Min(10000, v)
  IN  IF neg THEN -w ELSE w

\* np.cos(x) = sin(x + pi/2)
CosE4(x) == SinE4(x + 1571)

\* the integer square root, floor(sqrt(n)), by bisection on [lo, hi]
RECURSIVE IsqrtIn(_, _, _)
IsqrtIn(n, lo, hi) ==
  IF lo >= hi THEN lo
  ELSE LET mid == (lo + hi + 1) \div 2
       IN  IF mid * mid <= n THEN IsqrtIn(n, mid, hi)
           ELSE IsqrtIn(n, lo, mid - 1)

Isqrt(n) == IsqrtIn(n, 0, 40000)

\* Linear interpolation in a table of knots <<x, y>> sorted by x; the value
\* of the last knot beyond it.
RECURSIVE Interp(_, _, _)
Interp(tab, i, x) ==
  IF i >= Len(tab) THEN tab[Len(tab)][2]
  ELSE IF x <= tab[i + 1][1]
       THEN tab[i][2] + ((x - tab[i][1]) * (tab[i + 1][2] - tab[i][2]))
                          \div (tab[i + 1][1] - tab[i][1])
       ELSE Interp(tab, i + 1, x)

\* x ** 0.7 for x in [0, 1], argument and value in thousandths
Pow07(x) ==
  Interp(<< <<0, 0>>, <<10, 40>>, <<50, 123>>, <<100, 200>>, <<200, 324>>,
            <<300, 431>>, <<400, 527>>, <<500, 616>>, <<600, 699>>,
            <<700, 779>>, <<800, 855>>, <<900, 929>>, <<1000, 1000>> >>, 1, x)

\* np.exp(-t) for t >= 0, argument and value in thousandths
ExpNeg(t) ==
  Interp(<< <<0, 1000>>, <<250, 779>>, <<500, 607>>, <<1000, 368>>,
            <<1500, 223>>, <<2000, 135>>, <<3000, 50>>, <<4000, 18>>,
            <<5000, 7>>, <<7000, 1>>, <<10000, 0>> >>, 1, t)

(***************************************************************************)
(* The h3 library.                                                         *)
(***************************************************************************)
\* The centres <<lat, lon>> of the cells of the universe, in thousandths of a
\* degree.  A cell id is <<resolution, index into Centres>>.
Centres ==
  << <<40750, -74000>>,    \* NYC, on the reference meridian -74.0
     <<40750, -74020>>,    \* NYC, 0.02 degree from it
     <<40730, -74000>>,    \* NYC, on the reference meridian too
     <<40750, -73900>>,    \* NYC rectangle, outside the flood band
     <<40755, -73645>>,    \* Nassau County, east of the NYC rectangle
     <<41000, -74000>>,    \* north of the NYC rectangle
     <<25750, -80195>>,    \* Miami
     <<37700, -122410>>,   \* San Francisco Bay
     <<60000, 10000>> >>   \* a high-latitude inland point

H3ResValid(resolution) == resolution \in 0..15

\* h3.cell_to_latlng
cell_to_latlng(hex_id) == Centres[hex_id[2]]

\* The cell's circumradius in thousandths of a degree: finer with resolution.
CellSize(resolution) == 16 - resolution

\* h3.cell_to_boundary: the ordered (lat, lon) vertices.  The first cell of
\* the universe is a pentagon, the others are hexagons.
cell_to_boundary(hex_id) ==
  LET c == cell_to_latlng(hex_id)
      s == CellSize(hex_id[1])
      hexagon == << <<c[1] + 2 * s, c[2]>>, <<c[1] + s, c[2] + 2 * s>>,
                    <<c[1] - s, c[2] + 2 * s>>, <<c[1] - 2 * s, c[2]>>,
                    <<c[1] - s, c[2] - 2 * s>>, <<c[1] + s, c[2] - 2 * s>> >>
  IN  IF hex_id[2] = 1 THEN SubSeq(hexagon, 1, 5) ELSE hexagon

\* The indices of `s` (a set of indices) as an ascending sequence: the order
\* in which list(hex_ids) iterates.
RECURSIVE AscendingFrom(_, _)
AscendingFrom(s, i) ==
  IF i > Len(Centres) THEN << >>
  ELSE IF i \in s THEN <<i>> \o AscendingFrom(s, i + 1)
       ELSE AscendingFrom(s, i + 1)

\* h3.geo_to_cells(polygon, resolution) for the rectangle with the corners
\* (west, south), (east, south), (east, north), (west, north): the cells whose
\* centre lies in the rectangle.  The ring is the same rectangle whichever
\* way round the corners are listed.
geo_to_cells(bounds, resolution) ==
  LET lo_lat == Min(bounds.south, bounds.north)
      hi_lat == Max(bounds.south, bounds.north)
      lo_lon == Min(bounds.west, bounds.east)
      hi_lon == Max(bounds.west, bounds.east)
      inside == { i \in 1..Len(Centres) :
                    /\ lo_lat < Centres[i][1] /\ Centres[i][1] < hi_lat
                    /\ lo_lon < Centres[i][2] /\ Centres[i][2] < hi_lon }
      order  == AscendingFrom(inside, 1)
  IN  [ i \in 1..Len(order) |-> <<resolution, order[i]>> ]

\* A logger line.
Line(m) == [msg |-> m]

\* Whether the log holds the line m.
Logged(lg, m) == \E i \in 1..Len(lg) : lg[i].msg = m

\* No call, no result.
NoCall == [none |-> TRUE]

\* What a call returns or raises.
Ok(v) == [kind |-> "ok", value |-> v]

Raise(e) == [kind |-> "error", error |-> e]

\* _get_hexagons_in_bounds of the three services: the polygon of the box
\* handed to h3.geo_to_cells, which raises for a resolution outside 0..15.
get_hexagons_in_bounds(bounds, resolution) ==
  IF H3ResValid(resolution)
  THEN Ok(geo_to_cells(bounds, resolution))
  ELSE Raise("H3ResDomainError")

(***************************************************************************)
(* Shared by the three services.                                           *)
(***************************************************************************)
\* FlipAndClose with the pairs left in (lat, lon) order.
FlipAndClose_NotSwapped(boundary) == Append(boundary, boundary[1])

\* coords = [[lon, lat] for lat, lon in boundary]; coords.append(coords[0])
\* Only called on a boundary with a first vertex.
FlipAndClose(boundary) ==
  LET coords == [ i \in 1..Len(boundary) |-> <<boundary[i][2], boundary[i][1]>> ]
  IN  Append(coords, coords[1])

\* UtcTimestamp without the 'Z'.
UtcTimestamp_NoZone(t) == [iso |-> t, suffix |-> ""]

\* datetime.utcnow().isoformat() + 'Z'
UtcTimestamp(t) == [iso |-> t, suffix |-> "Z"]

\* The fractional part, in thousandths, of
\*   seed = np.sin((lat * a + lon * b) * 0.0174533) * 43758.5453
\* i.e. seed - np.floor(seed); a and b are given in hundredths.
SineHash(lat, lon, a, b) ==
  LET deg  == (lat * a + lon * b) \div 100
      rad  == (deg * 17) \div 1000 + ((deg \div 10) * 453) \div 100000
      seed == (SinE4(rad) * 43758) \div 10
  IN  seed % 1000

(***************************************************************************)
(* services/noaa_sea_level.py                                              *)
(***************************************************************************)
\* is_nyc_coastal with the northern edge at 41.0 instead of 40.9.
is_nyc_coastal_Wide(lat, lon) ==
  40400 <= lat /\ lat <= 41000 /\ -74300 <= lon /\ lon <= -73700

is_nyc_coastal(lat, lon) ==
  40400 <= lat /\ lat <= 40900 /\ -74300 <= lon /\ lon <= -73700

is_miami_coastal(lat, lon) ==
  25600 <= lat /\ lat <= 25900 /\ -80300 <= lon /\ lon <= -80100

is_sf_coastal(lat, lon) ==
  37400 <= lat /\ lat <= 37900 /\ -122600 <= lon /\ lon <= -122200

\* noise = (seed - np.floor(seed) - 0.5) * 0.5
FloodNoise(lat, lon) == (SineHash(lat, lon, 1723, 4117) - 500) \div 2

\* NOAASeaLevelService._simulate_flood_depth.  distance_factor is
\* abs(lon - meridian) / scale, kept as the pair (dist, scale).
simulate_flood_depth(lat, lon, max_feet) ==
  IF ~(is_nyc_coastal(lat, lon) \/ is_miami_coastal(lat, lon)
         \/ is_sf_coastal(lat, lon))
  THEN 0
  ELSE LET dist  == IF is_nyc_coastal(lat, lon) THEN Abs(lon + 74000)
                    ELSE IF is_miami_coastal(lat, lon) THEN Abs(lon + 80200)
                    ELSE Abs(lon + 122400)
           scale == IF is_nyc_coastal(lat, lon) THEN 300
                    ELSE IF is_miami_coastal(lat, lon) THEN 100
                    ELSE 200
       IN  IF 10 * dist > scale    \* distance_factor > 0.1
           THEN 0
           ELSE LET \* max_feet * (1 - (distance_factor / 0.1) * 0.8)
                    depth == (max_feet * (scale - 8 * dist)) \div scale
                    noisy == depth + FloodNoise(lat, lon)
                IN  Max(0, Min(max_feet, noisy))

\* The dict appended per flooded cell by _generate_hexagons_with_depth.
SeaLevelHexagon(hex_id, feet) ==
  LET c     == cell_to_latlng(hex_id)
      depth == simulate_flood_depth(c[1], c[2], feet)
  IN  [ hex_id   |-> hex_id,
        center   |-> <<c[2], c[1]>>,
        boundary |-> cell_to_boundary(hex_id),
        depth    |-> depth,
        depth_ft |-> Round2(depth),
        depth_m  |-> Round2((depth * 3048) \div 10000) ]

\* IsFlooded with the dry cells kept.
IsFlooded_OrDry(h) == h.depth >= 0

\* IsFlooded deciding on the depth as emitted, rounded to two decimals.
IsFlooded_Rounded(h) == h.depth_ft > 0

\* if depth > 0: only the flooded cells are kept
IsFlooded(h) == h.depth > 0

\* NOAASeaLevelService._generate_hexagons_with_depth on the cells found.
generate_hexagons_with_depth(hex_ids, feet) ==
  SelectSeq([ i \in 1..Len(hex_ids) |-> SeaLevelHexagon(hex_ids[i], feet) ],
            IsFlooded)

NOAA_feature(hex_data) ==
  [ type     |-> "Feature",
    geometry |-> [ type |-> "Polygon",
                   coordinates |-> << FlipAndClose(hex_data.boundary) >> ],
    properties |-> [ depth_ft |-> hex_data.depth_ft,
                     depth_m  |-> hex_data.depth_m,
                     center   |-> hex_data.center,
                     hexId    |-> hex_data.hex_id,
                     source   |-> "NOAA Sea Level Rise (simulated)" ] ]

\* NOAASeaLevelService._to_geojson
NOAA_to_geojson(hexagons, feet, t) ==
  IF \E i \in 1..Len(hexagons) : hexagons[i].boundary = << >>
  THEN Raise("IndexError")
  ELSE Ok([ type       |-> "FeatureCollection",
            features   |-> [ i \in 1..Len(hexagons) |-> NOAA_feature(hexagons[i]) ],
            properties |-> [ source         |-> "NOAA Sea Level Rise Viewer",
                             sea_level_feet |-> feet,
                             timestamp      |-> UtcTimestamp(t) ] ])

\* NOAASeaLevelService.get_sea_level_hexagons: any exception is logged and
\* raised again.
get_sea_level_hexagons(bounds, feet, resolution, t) ==
  LET cells == get_hexagons_in_bounds(bounds, resolution)
  IN  IF cells.kind = "error" THEN cells
      ELSE NOAA_to_geojson(generate_hexagons_with_depth(cells.value, feet),
                           feet, t)

NOAA_log(r) ==
  IF r.kind = "error"
  THEN <<Line("Generating sea level hexagons"),
         Line("Error generating sea level hexagons")>>
  ELSE <<Line("Generating sea level hexagons"),
         Line("Generated hexagons for sea level analysis")>>

(***************************************************************************)
(* services/nasa_climate.py                                                *)
(***************************************************************************)
\* BASELINE_TEMP_C = 14.5
BASELINE_TEMP_C == 14500

\* SCENARIOS.get(scenario, 'ssp245')
SspScenario(scenario) ==
  IF scenario = "rcp26" THEN "ssp126"
  ELSE IF scenario = "rcp45" THEN "ssp245"
  ELSE IF scenario = "rcp85" THEN "ssp585"
  ELSE "ssp245"

\* ScenarioTable with the rows of rcp26 and rcp85 exchanged.
ScenarioTable_Swapped(name) ==
  IF name = "rcp85" THEN [increase2050 |-> 1500, increase2100 |-> 2000]
  ELSE IF name = "rcp45" THEN [increase2050 |-> 2000, increase2100 |-> 3200]
  ELSE [increase2050 |-> 2500, increase2100 |-> 4800]

\* The table `scenarios` of _generate_simulated_data.
ScenarioTable(name) ==
  IF name = "rcp26" THEN [increase2050 |-> 1500, increase2100 |-> 2000]
  ELSE IF name = "rcp45" THEN [increase2050 |-> 2000, increase2100 |-> 3200]
  ELSE [increase2050 |-> 2500, increase2100 |-> 4800]

\* ScenarioConfig with the high scenario as the default.
ScenarioConfig_DefaultHigh(scenario) ==
  IF scenario \in {"rcp26", "rcp45", "rcp85"}
  THEN ScenarioTable(scenario)
  ELSE ScenarioTable("rcp85")

\* config = scenarios.get(scenario, scenarios['rcp45'])
ScenarioConfig(scenario) ==
  IF scenario \in {"rcp26", "rcp45", "rcp85"}
  THEN ScenarioTable(scenario)
  ELSE ScenarioTable("rcp45")

\* projected_increase = increase2050 + (increase2100 - increase2050) * year_progress
\* ProjectedIncrease with year_progress left unclamped.
ProjectedIncrease_Unclamped(year, scenario) ==
  LET config == ScenarioConfig(scenario)
  IN  config.increase2050
        + ((config.increase2100 - config.increase2050) * (year - 2025)) \div (2100 - 2025)

\* year_progress = max(0, min(1, (year - 2025) / (2100 - 2025))), and
\* projected_increase = increase2050 + (increase2100 - increase2050) * year_progress
ProjectedIncrease(year, scenario) ==
  LET config   == ScenarioConfig(scenario)
      progress == Max(0, Min(2100 - 2025, year - 2025))   \* in 75ths
  IN  config.increase2050
        + ((config.increase2100 - config.increase2050) * progress) \div (2100 - 2025)

\* lat_effect: polar amplification
LatEffect(lat) ==
  IF Abs(lat) > 45000 THEN (Abs(lat) * 18) \div 450 ELSE (Abs(lat) * 8) \div 450

\* The sum of the spatial terms of _generate_simulated_data at (lat, lon):
\* lat_effect + coastal_effect + continental_effect + noise1 + noise2 + noise3
\* + urban_factor.  An angle lat * a + lon * b is taken in radians, as the code
\* takes it.
SpatialTerms(lat, lon) ==
  LET coastal     == (SinE4((lon * 25 + lat * 17) \div 10) * 3) \div 100
      continental == (CosE4((lat * 32 - lon * 21) \div 10) * 4) \div 100
      noise1 == (SinE4((lat * 713 + lon * 527) \div 100)
                   * CosE4((lat * 397 - lon * 841) \div 100)) \div 200000
      noise2 == (SinE4((lat * 1371 - lon * 1139) \div 100)
                   * CosE4((lat * 1913 + lon * 723) \div 100)) \div 400000
      noise3 == (SinE4((lat * 2345 + lon * 1783) \div 100) * 15) \div 1000
      urban  == (Abs(SinE4((lat * 437) \div 10) * CosE4((lon * 513) \div 10)) * 6)
                   \div 1000000
  IN  LatEffect(lat) + coastal + continental + noise1 + noise2 + noise3 + urban

\* temp_anomaly of one cell in _generate_simulated_data
SimulatedAnomaly(lat, lon, year, scenario) ==
  ProjectedIncrease(year, scenario) + SpatialTerms(lat, lon)

\* TempHexagon with the centre left as (lat, lon).
TempHexagon_CenterLatLon(hex_id, temp_anomaly) ==
  [ hex_id         |-> hex_id,
    center         |-> cell_to_latlng(hex_id),
    boundary       |-> cell_to_boundary(hex_id),
    temp_anomaly   |-> Round2(temp_anomaly),
    temp_anomaly_f |-> Round2((temp_anomaly * 18) \div 10) ]

\* The dict appended per cell, by _generate_simulated_data and by
\* _create_hex_grid alike, for the anomaly `temp_anomaly`.
TempHexagon(hex_id, temp_anomaly) ==
  LET c == cell_to_latlng(hex_id)
  IN  [ hex_id         |-> hex_id,
        center         |-> <<c[2], c[1]>>,
        boundary       |-> cell_to_boundary(hex_id),
        temp_anomaly   |-> Round2(temp_anomaly),
        temp_anomaly_f |-> Round2((temp_anomaly * 18) \div 10) ]

NASA_feature(hex_data) ==
  [ type     |-> "Feature",
    geometry |-> [ type |-> "Polygon",
                   coordinates |-> << FlipAndClose(hex_data.boundary) >> ],
    properties |-> [ tempAnomaly  |-> hex_data.temp_anomaly,
                     tempAnomalyF |-> hex_data.temp_anomaly_f,
                     baseline     |-> BASELINE_TEMP_C,
                     projected    |-> Round2(BASELINE_TEMP_C + hex_data.temp_anomaly),
                     center       |-> hex_data.center,
                     hexId        |-> hex_data.hex_id,
                     source       |-> "NASA NEX-GDDP-CMIP6 (ACCESS-CM2)" ] ]

\* NASAClimateService._to_geojson
NASA_to_geojson(hexagons, year, scenario, ssp_scenario, t) ==
  IF \E i \in 1..Len(hexagons) : hexagons[i].boundary = << >>
  THEN Raise("IndexError")
  ELSE Ok([ type       |-> "FeatureCollection",
            features   |-> [ i \in 1..Len(hexagons) |-> NASA_feature(hexagons[i]) ],
            properties |-> [ source         |-> "NASA NEX-GDDP-CMIP6",
                             model          |-> "ACCESS-CM2",
                             scenario       |-> scenario,
                             ssp_scenario   |-> ssp_scenario,
                             year           |-> year,
                             baselinePeriod |-> "1986-2005",
                             timestamp      |-> UtcTimestamp(t) ] ])

\* NASAClimateService._generate_simulated_data
generate_simulated_data(bounds, year, scenario, resolution, t) ==
  LET cells == get_hexagons_in_bounds(bounds, resolution)
  IN  IF cells.kind = "error" THEN cells
      ELSE NASA_to_geojson(
             [ i \in 1..Len(cells.value) |->
                 LET c == cell_to_latlng(cells.value[i])
                 IN  TempHexagon(cells.value[i],
                                 SimulatedAnomaly(c[1], c[2], year, scenario)) ],
             year, scenario, SspScenario(scenario), t)

\* NASAClimateService._get_time_range: the chunk <<first year, last year>>
get_time_range(year) ==
  IF year < 2020 THEN <<2015, 2034>>
  ELSE IF year < 2040 THEN <<2020, 2039>>
  ELSE IF year < 2060 THEN <<2040, 2059>>
  ELSE IF year < 2080 THEN <<2060, 2079>>
  ELSE <<2080, 2099>>

\* NASAClimateService._construct_s3_path: the parts of the path
construct_s3_path(variable, scenario, model, time_range) ==
  [ bucket |-> "s3://nasa-nex-gddp-cmip6", variable |-> variable,
    scenario |-> scenario, model |-> model, time_range |-> time_range ]

\* The remote dataset is the environment of the real-data path.  `fail` is
\* the step at which the retrieval raises ("none": it does not); `gaps` are
\* the cells (indices of Centres) at which sampling the grid raises.
RealSteps == {"open", "parse", "slice", "mean", "grid", "serialize"}

\* float(temp_data.sel(lat, lon, method='nearest').values): the time mean of
\* tasmax in Kelvin, less 273.15, less the baseline.
SampledAnomaly(lat, lon) ==
  (289650 + Abs(lat) \div 20 - 273150) - BASELINE_TEMP_C

\* create_hex_grid without the try around the sampling: the exception of a
\* cell leaves the loop.
create_hex_grid_Propagate(bounds, gaps, resolution) ==
  LET cells == get_hexagons_in_bounds(bounds, resolution)
  IN  IF cells.kind = "error" THEN cells
      ELSE IF \E i \in 1..Len(cells.value) : cells.value[i][2] \in gaps
      THEN Raise("KeyError")
      ELSE Ok([ i \in 1..Len(cells.value) |->
                  LET c == cell_to_latlng(cells.value[i])
                  IN  TempHexagon(cells.value[i], SampledAnomaly(c[1], c[2])) ])

\* NASAClimateService._create_hex_grid: a cell whose sampling raises gets 0.0
create_hex_grid(bounds, gaps, resolution) ==
  LET cells == get_hexagons_in_bounds(bounds, resolution)
  IN  IF cells.kind = "error" THEN cells
      ELSE Ok([ i \in 1..Len(cells.value) |->
                  LET c == cell_to_latlng(cells.value[i])
                  IN  TempHexagon(cells.value[i],
                                  IF cells.value[i][2] \in gaps THEN 0
                                  ELSE SampledAnomaly(c[1], c[2])) ])

\* The try block of get_temperature_projection: the FeatureCollection, or the
\* exception that leaves the block.
RealDataPath(bounds, year, scenario, resolution, env, t) ==
  IF env.fail \in {"open", "parse", "slice", "mean"}
  THEN Raise(env.fail)
  ELSE LET hexagons == create_hex_grid(bounds, env.gaps, resolution)
       IN  IF env.fail = "grid" THEN Raise("grid")
           ELSE IF hexagons.kind = "error" THEN hexagons
           ELSE IF env.fail = "serialize" THEN Raise("serialize")
           ELSE NASA_to_geojson(hexagons.value, year, scenario,
                                SspScenario(scenario), t)

\* get_temperature_projection with an except block that raises again.
get_temperature_projection_Reraise(bounds, year, scenario, resolution, use_simulated, env, t) ==
  IF use_simulated
  THEN generate_simulated_data(bounds, year, scenario, resolution, t)
  ELSE RealDataPath(bounds, year, scenario, resolution, env, t)

\* get_temperature_projection with a second attempt at the real data when the
\* simulated path fails too.
get_temperature_projection_Retry(bounds, year, scenario, resolution, use_simulated, env, t) ==
  IF use_simulated
  THEN generate_simulated_data(bounds, year, scenario, resolution, t)
  ELSE LET real == RealDataPath(bounds, year, scenario, resolution, env, t)
           sim  == generate_simulated_data(bounds, year, scenario, resolution, t)
       IN  IF real.kind = "ok" THEN real
           ELSE IF sim.kind = "ok" THEN sim
           ELSE RealDataPath(bounds, year, scenario, resolution, env, t)

\* NASAClimateService.get_temperature_projection: what it returns or raises.
get_temperature_projection(bounds, year, scenario, resolution, use_simulated, env, t) ==
  IF use_simulated
  THEN generate_simulated_data(bounds, year, scenario, resolution, t)
  ELSE LET real == RealDataPath(bounds, year, scenario, resolution, env, t)
       IN  IF real.kind = "ok" THEN real
           ELSE generate_simulated_data(bounds, year, scenario, resolution, t)

\* The logger lines of get_temperature_projection.
NASA_log(bounds, year, scenario, resolution, use_simulated, env, t) ==
  LET generating == <<Line("Generating simulated data for bounds")>>
  IN  IF use_simulated
      THEN <<Line("Using simulated data")>> \o generating
      ELSE LET real == RealDataPath(bounds, year, scenario, resolution, env, t)
               head == << Line("Fetching NASA data"),
                          [ msg  |-> "Opening dataset",
                            path |-> construct_s3_path("tasmax",
                                       SspScenario(scenario), "ACCESS-CM2",
                                       get_time_range(year)) ] >>
           IN  IF real.kind = "ok" THEN head
               ELSE head \o << [msg |-> "Error fetching NASA data",
                                error |-> real.error],
                               Line("Falling back to simulated data") >>
                         \o generating

(***************************************************************************)
(* services/urban_heat_island.py                                           *)
(***************************************************************************)
\* UrbanHeatIslandService._classify_level
classify_level(intensity) ==
  IF intensity < 500 THEN "none"
  ELSE IF intensity < 1500 THEN "low"
  ELSE IF intensity < 3000 THEN "moderate"
  ELSE IF intensity < 4500 THEN "high"
  ELSE "extreme"

\* dist_from_center = np.sqrt((lat - center_lat)**2 + (lon - center_lon)**2)
\* with center = the middle of the box; computed on doubled coordinates so
\* that the halves are exact, and in tenths of a degree once the point is
\* more than 15 degrees from the middle, where the squares of thousandths
\* would leave the integers.
DistFromCenter(lat, lon, bounds) ==
  LET dlat2 == 2 * lat - (bounds.north + bounds.south)
      dlon2 == 2 * lon - (bounds.east + bounds.west)
      far   == Max(Abs(dlat2), Abs(dlon2)) > 30000
      u     == dlat2 \div 100
      v     == dlon2 \div 100
  IN  IF far THEN (Isqrt(u * u + v * v) * 100) \div 2
      ELSE Isqrt(dlat2 * dlat2 + dlon2 * dlon2) \div 2

\* HeatTrend with the power law taken for the intensity itself, not for the
\* loss of intensity.
HeatTrend_Rising(dist) ==
  IF dist < 150
  THEN (4500 * Pow07((dist * 1000) \div 150)) \div 1000
  ELSE (1350 * ExpNeg(((dist - 150) * 1000) \div 100)) \div 1000

\* The intensity before the noise: power law inside the core radius 0.15,
\* exponential decay (length 0.1) of 30% of the maximum 4.5 outside it.
HeatTrend(dist) ==
  IF dist < 150
  THEN (4500 * (1000 - Pow07((dist * 1000) \div 150))) \div 1000
  ELSE (1350 * ExpNeg(((dist - 150) * 1000) \div 100)) \div 1000

\* noise = (seed - np.floor(seed)) * 2 - 1; the term added is noise * 0.8
HeatNoise(lat, lon) == ((2 * SineHash(lat, lon, 2314, 3719) - 1000) * 8) \div 10

\* ClampIntensity without the lower bound.
ClampIntensity_UpperOnly(intensity) == Min(6000, intensity)

\* intensity = max(0, min(6.0, intensity))
ClampIntensity(intensity) == Max(0, Min(6000, intensity))

\* The intensity of one cell as computed in the loop of get_heat_island_data.
HeatIntensity(lat, lon, bounds) ==
  ClampIntensity(HeatTrend(DistFromCenter(lat, lon, bounds)) + HeatNoise(lat, lon))

\* The dict appended per cell by get_heat_island_data.
HeatHexagon(hex_id, bounds) ==
  LET c         == cell_to_latlng(hex_id)
      intensity == HeatIntensity(c[1], c[2], bounds)
  IN  [ hex_id    |-> hex_id,
        center    |-> <<c[2], c[1]>>,
        boundary  |-> cell_to_boundary(hex_id),
        intensity |-> Round2(intensity),
        level     |-> classify_level(intensity) ]

UHI_feature(hex_data, resolution) ==
  [ type     |-> "Feature",
    geometry |-> [ type |-> "Polygon",
                   coordinates |-> << FlipAndClose(hex_data.boundary) >> ],
    properties |-> [ hex_id              |-> hex_data.hex_id,
                     heatIslandIntensity |-> hex_data.intensity,
                     level               |-> hex_data.level,
                     center              |-> hex_data.center,
                     resolution          |-> resolution ] ]

\* datetime.now().isoformat().split('T')[0]: the local date, two ticks a day
LocalDate(t) == IF t \div 2 = 0 THEN "2025-01-01" ELSE "2025-01-02"

\* UrbanHeatIslandService._to_geojson; `date or ...` takes the local date for
\* None and for the empty string.
UHI_to_geojson(hexagons, date, resolution, t) ==
  IF \E i \in 1..Len(hexagons) : hexagons[i].boundary = << >>
  THEN Raise("IndexError")
  ELSE Ok([ type     |-> "FeatureCollection",
            features |-> [ i \in 1..Len(hexagons) |->
                             UHI_feature(hexagons[i], resolution) ],
            metadata |-> [ date        |-> IF date \in {"None", ""}
                                           THEN LocalDate(t) ELSE date,
                           resolution  |-> resolution,
                           count       |-> Len(hexagons),
                           source      |-> "Simulated Urban Heat Island",
                           description |-> "Urban heat island intensity" ] ])

\* UHI_clamp_resolution without the clamp.
UHI_clamp_resolution_None(resolution) == resolution

\* resolution = max(0, min(15, resolution))
UHI_clamp_resolution(resolution) == Max(0, Min(15, resolution))

\* UrbanHeatIslandService.get_heat_island_data
get_heat_island_data(bounds, date, resolution, t) ==
  LET res   == UHI_clamp_resolution(resolution)
      cells == get_hexagons_in_bounds(bounds, res)
  IN  IF cells.kind = "error" THEN cells
      ELSE UHI_to_geojson([ i \in 1..Len(cells.value) |->
                              HeatHexagon(cells.value[i], bounds) ],
                          date, res, t)

UHI_log(r) ==
  IF r.kind = "error"
  THEN <<Line("Generating urban heat island data")>>
  ELSE <<Line("Generating urban heat island data"),
         Line("Generated urban heat island hexagons")>>

(***************************************************************************)
(* climate_server.py                                                       *)
(***************************************************************************)
\* jsonify({'success': False, 'error': ...}), status
ErrorResponse(status, error) ==
  [status |-> status, body |-> [success |-> FALSE, error |-> error]]

\* The validation of temperature_projection: the 400 response of the first
\* check that fails, or NoCall when the request passes them all.  `missing`
\* are the query parameters the request does not carry.
TemperatureValidation(req) ==
  LET b == req.bounds
  IN  IF req.missing \cap {"north", "south", "east", "west"} # {}
      THEN ErrorResponse(400, "Missing required parameters: north, south, east, west")
      ELSE IF ~(-90000 <= b.south /\ b.south < b.north /\ b.north <= 90000)
      THEN ErrorResponse(400, "Invalid latitude bounds")
      ELSE IF ~(-180000 <= b.west /\ b.west < b.east /\ b.east <= 180000)
      THEN ErrorResponse(400, "Invalid longitude bounds")
      ELSE IF ~(2020 <= req.year /\ req.year <= 2100)
      THEN ErrorResponse(400, "Year must be between 2020 and 2100")
      ELSE IF req.scenario \notin {"rcp26", "rcp45", "rcp85"}
      THEN ErrorResponse(400, "Scenario must be one of: rcp26, rcp45, rcp85")
      ELSE IF ~(4 <= req.resolution /\ req.resolution <= 10)
      THEN ErrorResponse(400, "Resolution must be between 4 and 10")
      ELSE NoCall

\* The response of temperature_projection once the service has answered
\* `data`: the envelope, or the 500 of the handler's `except Exception`.
TemperatureResponse(req, data) ==
  IF data.kind = "error"
  THEN ErrorResponse(500, data.error)
  ELSE [ status |-> 200,
         body |-> [ success  |-> TRUE,
                    data     |-> data.value,
                    metadata |-> [ bounds          |-> req.bounds,
                                   year            |-> req.year,
                                   scenario        |-> req.scenario,
                                   resolution      |-> req.resolution,
                                   using_real_data |-> req.use_real_data,
                                   feature_count   |-> Len(data.value.features) ] ] ]

\* The validation of sea_level_rise: south may equal north, and west is not
\* compared with east.
SeaLevelValidation(req) ==
  LET b == req.bounds
  IN  IF req.missing \cap {"north", "south", "east", "west"} # {}
      THEN ErrorResponse(400, "Missing required parameters: north, south, east, west")
      ELSE IF ~(-90000 <= b.south /\ b.south <= b.north /\ b.north <= 90000)
      THEN ErrorResponse(400, "Invalid latitude bounds")
      ELSE IF ~(-180000 <= b.west /\ b.west <= 180000
                  /\ -180000 <= b.east /\ b.east <= 180000)
      THEN ErrorResponse(400, "Invalid longitude bounds")
      ELSE IF ~(0 <= req.feet /\ req.feet <= 10000)
      THEN ErrorResponse(400, "Feet must be between 0 and 10")
      ELSE IF ~(6 <= req.resolution /\ req.resolution <= 10)
      THEN ErrorResponse(400, "Resolution must be between 6 and 10")
      ELSE NoCall

\* The response of sea_level_rise once the service has answered `data`.
SeaLevelResponse(req, data) ==
  IF data.kind = "error"
  THEN ErrorResponse(500, data.error)
  ELSE [ status |-> 200,
         body |-> [ success  |-> TRUE,
                    data     |-> data.value,
                    metadata |-> [ bounds        |-> req.bounds,
                                   feet          |-> req.feet,
                                   resolution    |-> req.resolution,
                                   feature_count |-> Len(data.value.features) ] ] ]

\* The validation of urban_heat_island.
HeatIslandValidation(req) ==
  LET b == req.bounds
  IN  IF req.missing \cap {"north", "south", "east", "west"} # {}
      THEN ErrorResponse(400, "Missing required parameters: north, south, east, west")
      ELSE IF ~(-90000 <= b.south /\ b.south < b.north /\ b.north <= 90000)
      THEN ErrorResponse(400, "Invalid latitude bounds")
      ELSE IF ~(-180000 <= b.west /\ b.west < b.east /\ b.east <= 180000)
      THEN ErrorResponse(400, "Invalid longitude bounds")
      ELSE IF ~(4 <= req.resolution /\ req.resolution <= 10)
      THEN ErrorResponse(400, "Resolution must be between 4 and 10")
      ELSE NoCall

\* The response of urban_heat_island once the service has answered `data`.
HeatIslandResponse(req, data) ==
  IF data.kind = "error"
  THEN ErrorResponse(500, data.error)
  ELSE [ status |-> 200,
         body |-> [ success  |-> TRUE,
                    data     |-> data.value,
                    metadata |-> [ bounds        |-> req.bounds,
                                   date          |-> req.date,
                                   resolution    |-> req.resolution,
                                   feature_count |-> Len(data.value.features) ] ] ]

\* climate_info: the warming /api/climate/info advertises for a scenario.
climate_info_scenarios(name) ==
  IF name = "rcp26" THEN [temp_increase_2050 |-> 1500, temp_increase_2100 |-> 2000]
  ELSE IF name = "rcp45" THEN [temp_increase_2050 |-> 2000, temp_increase_2100 |-> 3200]
  ELSE [temp_increase_2050 |-> 2500, temp_increase_2100 |-> 4800]

(***************************************************************************)
(* The inputs the calls are tried on.                                      *)
(***************************************************************************)
Box(n, s, e, w) == [north |-> n, south |-> s, east |-> e, west |-> w]

BoundsValues ==
  { Box(40800, 40700, -73950, -74050),    \* lower Manhattan, around -74.0
    Box(40760, 40750, -73640, -73650),    \* Nassau County
    Box(41100, 40400, -73600, -74300),    \* the New York region
    Box(26500, 25500, -79500, -80500),    \* the Miami region
    Box(38000, 37000, -122000, -123000),  \* San Francisco Bay
    Box(61000, 59000, 11000, 9000),       \* a high-latitude box
    Box(40950, 40550, -73685, -74085),    \* middle 0.115 degree east of -74.0
    Box(40700, 40800, -74050, -73950),    \* south > north and west > east
    Box(61000, 25000, 11000, -123000) }   \* every cell of the universe

ResolutionValues == {-1, 0, 7, 9, 15, 16}

\* feet, in thousandths: 0, 0.004, 1, 2.996 and 3 feet
FeetValues == {0, 4, 1000, 2996, 3000}

YearValues == {2020, 2050, 2100}

ScenarioValues == {"rcp26", "rcp45", "rcp85", "ssp370"}

\* The environments of a real-data call.
EnvValues ==
  { [fail |-> f, gaps |-> {}] : f \in RealSteps }
    \cup { [fail |-> "none", gaps |-> g] : g \in { {}, {2} } }

\* The environment is not consulted by a simulated call.
NoEnv == [fail |-> "none", gaps |-> {}]

\* The boxes a query string may carry beside those above.
RequestBounds ==
  BoundsValues
    \cup { Box(40800, 40700, -74050, -73950),    \* west > east alone
           Box(40750, 40750, -73950, -74050),    \* south = north
           Box(91000, 40700, -73950, -74050),    \* north beyond the pole
           Box(40800, 40700, -73950, -181000) }  \* west beyond -180

\* The query strings GET /api/climate/temperature-projection is tried on.
TemperatureRequests ==
  { [ bounds |-> b, missing |-> m, year |-> y, scenario |-> sc,
      resolution |-> r, use_real_data |-> real ] :
      b \in RequestBounds, m \in { {}, {"north"} }, y \in {2019, 2050, 2100},
      sc \in {"rcp45", "rcp85", "ssp370"}, r \in {3, 7, 10, 11},
      real \in BOOLEAN }

\* The query strings GET /api/climate/sea-level-rise is tried on; feet is
\* parsed as an integer.
SeaLevelRequests ==
  { [ bounds |-> b, missing |-> m, feet |-> f, resolution |-> r ] :
      b \in RequestBounds, m \in { {}, {"north"} }, f \in {0, 3000, 11000},
      r \in {5, 6, 10, 11} }

\* The query strings GET /api/climate/urban-heat-island is tried on.
HeatIslandRequests ==
  { [ bounds |-> b, missing |-> m, date |-> d, resolution |-> r ] :
      b \in RequestBounds, m \in { {}, {"north"} }, d \in {"None", "2024-07-15"},
      r \in {3, 4, 10, 11} }

DateValues == {"None", "", "2024-07-15"}

ServiceNames ==
  {"NASAClimateService", "NOAASeaLevelService", "UrbanHeatIslandService"}

\* The boundaries a serializer is handed directly: none, one and two vertices,
\* one vertex three times, and a triangle.
BoundaryValues ==
  { << >>,
    << <<40750, -74000>> >>,
    << <<40750, -74000>>, <<40760, -74000>> >>,
    << <<40750, -74000>>, <<40750, -74000>>, <<40750, -74000>> >>,
    << <<40750, -74000>>, <<40760, -74000>>, <<40755, -73990>> >> }

\* A sample of the globe, every 15 degrees of latitude and 30 of longitude,
\* and years before, within and after the range of the projections.
LatValues == { 15000 * k : k \in -6..6 }

LonValues == { 30000 * k : k \in -6..6 }

AnyYearValues == {1990, 2025, 2050, 2062, 2100, 2500}

\* The requests, by the thread that serves them.
Req == 1..MaxRequests

\* A thread that serves no request.
IdleRequest == [phase |-> "idle"]

\* No request is in flight.
NoRequests ==
  /\ requests = [r \in Req |-> IdleRequest]
  /\ hexagon_list = [r \in Req |-> << >>]

\* qgis_server.py as loaded: both dicts empty, the pool without a task, no
\* request answered.
NoWorkflows ==
  /\ analysis_progress = << >>
  /\ analysis_results = << >>
  /\ work_queue = << >>
  /\ worker_tasks = << >>
  /\ started = {}
  /\ response = [op |-> "none"]

Init ==
  /\ now = 0
  /\ pc = "idle"
  /\ op = "none"
  /\ args = NoCall
  /\ ret = NoCall
  /\ log = << >>
  /\ NoRequests
  /\ NoWorkflows

\* Time passes between calls.
Tick ==
  /\ pc = "idle"
  /\ now < MaxClock
  /\ now' = now + 1
  /\ UNCHANGED <<pc, op, args, ret, log, env_vars>>

\* The caller takes the result; the services keep nothing of the call.
Return ==
  /\ pc = "done"
  /\ pc' = "idle"
  /\ op' = "none"
  /\ args' = NoCall
  /\ ret' = NoCall
  /\ log' = << >>
  /\ UNCHANGED <<now, env_vars>>

\* A direct call of NOAASeaLevelService.get_sea_level_hexagons.
GetSeaLevelHexagons ==
  /\ pc = "idle"
  /\ \E b \in BoundsValues, f \in FeetValues, r \in ResolutionValues :
       LET res == get_sea_level_hexagons(b, f, r, now)
       IN  /\ op' = "get_sea_level_hexagons"
           /\ args' = [bounds |-> b, feet |-> f, resolution |-> r]
           /\ ret' = res
           /\ log' = NOAA_log(res)
  /\ pc' = "done"
  /\ UNCHANGED <<now, env_vars>>

\* A direct call of NOAASeaLevelService._simulate_flood_depth.
SimulateFloodDepth ==
  /\ pc = "idle"
  /\ \E i \in 1..Len(Centres), f \in FeetValues :
       /\ op' = "_simulate_flood_depth"
       /\ args' = [lat |-> Centres[i][1], lon |-> Centres[i][2], max_feet |-> f]
       /\ ret' = Ok(simulate_flood_depth(Centres[i][1], Centres[i][2], f))
       /\ log' = << >>
  /\ pc' = "done"
  /\ UNCHANGED <<now, env_vars>>

\* The _to_geojson of one of the three services, called at clock t on a list
\* of two cells: a cell as the service builds it, and one whose boundary is
\* `b`.  The metadata arguments are (2050, "rcp45", "ssp245"), feet = 3 and
\* (date = None, resolution = 9).
to_geojson(svc, b, t) ==
  LET box == Box(40800, 40700, -73950, -74050)
  IN  IF svc = "NASAClimateService"
      THEN NASA_to_geojson(
             << TempHexagon(<<9, 2>>, 2000),
                [TempHexagon(<<9, 1>>, 2000) EXCEPT !.boundary = b] >>,
             2050, "rcp45", "ssp245", t)
      ELSE IF svc = "NOAASeaLevelService"
      THEN NOAA_to_geojson(
             << SeaLevelHexagon(<<9, 2>>, 3000),
                [SeaLevelHexagon(<<9, 1>>, 3000) EXCEPT !.boundary = b] >>,
             3000, t)
      ELSE UHI_to_geojson(
             << HeatHexagon(<<9, 2>>, box),
                [HeatHexagon(<<9, 1>>, box) EXCEPT !.boundary = b] >>,
             "None", 9, t)

\* A direct call of the _to_geojson of one of the three services.
ToGeojson ==
  /\ pc = "idle"
  /\ \E svc \in ServiceNames, b \in BoundaryValues :
       /\ op' = "_to_geojson"
       /\ args' = [service |-> svc, boundary |-> b]
       /\ ret' = to_geojson(svc, b, now)
       /\ log' = << >>
  /\ pc' = "done"
  /\ UNCHANGED <<now, env_vars>>

\* One pass of the per-cell loop of _generate_simulated_data, for a cell
\* centred at (lat, lon): the temp_anomaly it computes.
SimulatedCell ==
  /\ pc = "idle"
  /\ \E lat \in LatValues, lon \in LonValues, y \in AnyYearValues,
        sc \in ScenarioValues :
       /\ op' = "temp_anomaly"
       /\ args' = [lat |-> lat, lon |-> lon, year |-> y, scenario |-> sc]
       /\ ret' = Ok(SimulatedAnomaly(lat, lon, y, sc))
       /\ log' = << >>
  /\ pc' = "done"
  /\ UNCHANGED <<now, env_vars>>

\* The intensity get_heat_island_data gives a cell at distance `dist` from
\* the middle of the box, before the noise is added.
HeatTrendAt ==
  /\ pc = "idle"
  /\ \E d \in 0..MaxDist :
       /\ op' = "heat_trend"
       /\ args' = [dist |-> d]
       /\ ret' = Ok(HeatTrend(d))
       /\ log' = << >>
  /\ pc' = "done"
  /\ UNCHANGED <<now, env_vars>>

\* A direct call of UrbanHeatIslandService.get_heat_island_data.
GetHeatIslandData ==
  /\ pc = "idle"
  /\ \E b \in BoundsValues, d \in DateValues, r \in ResolutionValues :
       LET res == get_heat_island_data(b, d, r, now)
       IN  /\ op' = "get_heat_island_data"
           /\ args' = [bounds |-> b, date |-> d, resolution |-> r]
           /\ ret' = res
           /\ log' = UHI_log(res)
  /\ pc' = "done"
  /\ UNCHANGED <<now, env_vars>>

\* A direct call of NASAClimateService.get_temperature_projection; args.env
\* keeps the condition of the remote dataset the call met.
GetTemperatureProjection ==
  /\ pc = "idle"
  /\ \E b \in BoundsValues, y \in YearValues, sc \in ScenarioValues,
        r \in ResolutionValues, sim \in BOOLEAN, env \in EnvValues :
       /\ sim => env = NoEnv
       /\ op' = "get_temperature_projection"
       /\ args' = [bounds |-> b, year |-> y, scenario |-> sc, resolution |-> r,
                   use_simulated |-> sim, env |-> env]
       /\ ret' = get_temperature_projection(b, y, sc, r, sim, env, now)
       /\ log' = NASA_log(b, y, sc, r, sim, env, now)
  /\ pc' = "done"
  /\ UNCHANGED <<now, env_vars>>

\* GET /api/climate/temperature-projection, handled by temperature_projection.
TemperatureProjectionEndpoint ==
  /\ pc = "idle"
  /\ \E req \in TemperatureRequests, env \in EnvValues :
       LET refusal == TemperatureValidation(req)
           sim     == ~req.use_real_data
       IN  /\ sim => env = NoEnv
           /\ refusal # NoCall => env = NoEnv
           /\ op' = "temperature_projection"
           /\ args' = req
           /\ IF refusal # NoCall
              THEN /\ ret' = refusal
                   /\ log' = << >>
              ELSE /\ ret' = TemperatureResponse(req,
                               get_temperature_projection(req.bounds, req.year,
                                 req.scenario, req.resolution, sim, env, now))
                   /\ log' = <<Line("Temperature projection request")>>
                               \o NASA_log(req.bounds, req.year, req.scenario,
                                           req.resolution, sim, env, now)
  /\ pc' = "done"
  /\ UNCHANGED <<now, env_vars>>

\* GET /api/climate/sea-level-rise, handled by sea_level_rise.
SeaLevelRiseEndpoint ==
  /\ pc = "idle"
  /\ \E req \in SeaLevelRequests :
       LET refusal == SeaLevelValidation(req)
           data    == get_sea_level_hexagons(req.bounds, req.feet,
                                             req.resolution, now)
       IN  /\ op' = "sea_level_rise"
           /\ args' = req
           /\ IF refusal # NoCall
              THEN /\ ret' = refusal
                   /\ log' = << >>
              ELSE /\ ret' = SeaLevelResponse(req, data)
                   /\ log' = <<Line("Sea level rise request")>> \o NOAA_log(data)
  /\ pc' = "done"
  /\ UNCHANGED <<now, env_vars>>

\* GET /api/climate/urban-heat-island, handled by urban_heat_island.
UrbanHeatIslandEndpoint ==
  /\ pc = "idle"
  /\ \E req \in HeatIslandRequests :
       LET refusal == HeatIslandValidation(req)
           data    == get_heat_island_data(req.bounds, req.date,
                                           req.resolution, now)
       IN  /\ op' = "urban_heat_island"
           /\ args' = req
           /\ IF refusal # NoCall
              THEN /\ ret' = refusal
                   /\ log' = << >>
              ELSE /\ ret' = HeatIslandResponse(req, data)
                   /\ log' = <<Line("Urban heat island request")>> \o UHI_log(data)
  /\ pc' = "done"
  /\ UNCHANGED <<now, env_vars>>

Next ==
  \/ Tick
  \/ Return
  \/ GetSeaLevelHexagons
  \/ SimulateFloodDepth
  \/ GetHeatIslandData
  \/ GetTemperatureProjection
  \/ TemperatureProjectionEndpoint
  \/ SimulatedCell
  \/ HeatTrendAt
  \/ ToGeojson
  \/ SeaLevelRiseEndpoint
  \/ UrbanHeatIslandEndpoint

Spec == Init /\ [][Next]_vars

(***************************************************************************)
(* Requests served side by side.  The three services are module-level      *)
(* instances shared by the threads of the server; a thread runs the        *)
(* per-cell loop of its request one cell at a time, and the threads        *)
(* interleave at will.  The cells are taken in any order.                  *)
(***************************************************************************)
\* The single call's variables, which a request served here leaves alone.
call_vars == <<now, pc, op, args, ret, log>>

\* The boxes of the requests: two cells around -74.0, and one in Miami.
ServedBounds ==
  { Box(40800, 40740, -73950, -74050), Box(26500, 25500, -79500, -80500) }

\* Accumulator with one list on the service instance for all the requests.
Accumulator_Shared(r) == 1

\* `hexagons = []` is a local variable of the call: each request fills a
\* list of its own.
Accumulator(r) == r

\* What the loop of `service` appends for the cell hex_id: a list of one
\* dict, or of none for a cell the sea-level service finds dry.
CellDicts(service, hex_id, bounds) ==
  LET c == cell_to_latlng(hex_id)
  IN  IF service = "NASAClimateService"
      THEN << TempHexagon(hex_id, SimulatedAnomaly(c[1], c[2], 2050, "rcp45")) >>
      ELSE IF service = "NOAASeaLevelService"
      THEN SelectSeq(<< SeaLevelHexagon(hex_id, 3000) >>, IsFlooded)
      ELSE << HeatHexagon(hex_id, bounds) >>

\* The serializer of `service` on the list filled.
Serialized(service, cells, t) ==
  IF service = "NASAClimateService"
  THEN NASA_to_geojson(cells, 2050, "rcp45", SspScenario("rcp45"), t)
  ELSE IF service = "NOAASeaLevelService"
  THEN NOAA_to_geojson(cells, 3000, t)
  ELSE UHI_to_geojson(cells, "None", 9, t)

\* A thread takes a request (simulated temperature for 2050 and rcp45, 3 feet
\* of sea level, or heat island, at resolution 9): it finds the cells of the
\* box and starts an empty list.
ServeBegin(r) ==
  /\ requests[r].phase = "idle"
  /\ \E service \in ServiceNames, b \in ServedBounds :
       LET hex_ids == get_hexagons_in_bounds(b, 9).value
       IN  requests' = [requests EXCEPT ![r] =
                          [ phase |-> "loop", service |-> service, bounds |-> b,
                            todo |-> { hex_ids[i] : i \in 1..Len(hex_ids) } ]]
  /\ hexagon_list' = [hexagon_list EXCEPT ![Accumulator(r)] = << >>]
  /\ UNCHANGED <<call_vars, wf_vars>>

\* One pass of the loop: the dict of one more cell is appended.
ServeCell(r) ==
  /\ requests[r].phase = "loop"
  /\ \E hex_id \in requests[r].todo :
       /\ hexagon_list' = [hexagon_list EXCEPT ![Accumulator(r)] =
                             @ \o CellDicts(requests[r].service, hex_id,
                                            requests[r].bounds)]
       /\ requests' = [requests EXCEPT ![r].todo = @ \ {hex_id}]
  /\ UNCHANGED <<call_vars, wf_vars>>

\* The loop is over: the list is serialized and the request answered.
ServeFinish(r) ==
  /\ requests[r].phase = "loop"
  /\ requests[r].todo = {}
  /\ requests' = [requests EXCEPT ![r] =
                    [ phase |-> "done", service |-> requests[r].service,
                      bounds |-> requests[r].bounds,
                      result |-> Serialized(requests[r].service,
                                            hexagon_list[Accumulator(r)], now) ]]
  /\ UNCHANGED <<hexagon_list, call_vars, wf_vars>>

\* The thread is free for the next request.
ServeReturn(r) ==
  /\ requests[r].phase = "done"
  /\ requests' = [requests EXCEPT ![r] = IdleRequest]
  /\ UNCHANGED <<hexagon_list, call_vars, wf_vars>>

NextRequests ==
  \E r \in Req :
    \/ ServeBegin(r)
    \/ ServeCell(r)
    \/ ServeFinish(r)
    \/ ServeReturn(r)

SpecRequests == Init /\ [][NextRequests]_vars

(***************************************************************************)
(* qgis_server.py: the multi-step processing workflows.                    *)
(*                                                                         *)
(* A workflow id is uuid.uuid4(): a fresh value each time, here the next   *)
(* of 1..MaxWorkflows.  The threads of the pool are alike, so a task is    *)
(* known by its workflow id, not by the thread that runs it.  What a       *)
(* thread does between two accesses of the shared dicts is taken with the  *)
(* access that follows: a thread takes a task and writes 'running'; the    *)
(* workflow function runs and its result is stored, or it raises and       *)
(* 'failed' is written; then 'completed' is written, or the error stored.  *)
(***************************************************************************)
\* executor = ThreadPoolExecutor(max_workers=4)
max_workers == 4

WorkflowIds == 1..MaxWorkflows

\* The types run_workflow_async dispatches on.
KnownWorkflowTypes ==
  { "comprehensive_sustainability", "development_impact_assessment",
    "climate_adaptation_plan" }

\* The 'type' of the body of a POST /api/workflows/start: absent, one that is
\* dispatched, one that is not.
TypeValues == {"", "climate_adaptation_plan", "zoning_review"}

\* d[k] = v on a dict
Put(d, k, v) == (k :> v) @@ d

\* A task leaves the pool.
Without(d, k) == [ x \in DOMAIN d \ {k} |-> d[x] ]

\* start_workflow: a request without a type is refused; any other is handed
\* to the pool and answered at once.
StartWorkflow ==
  /\ \E workflow_type \in TypeValues :
       IF workflow_type = ""
       THEN /\ response' = [ op |-> "start_workflow", success |-> FALSE,
                             error |-> "Workflow type required" ]
            /\ UNCHANGED <<work_queue, started>>
       ELSE /\ Cardinality(started) < MaxWorkflows
            /\ LET workflow_id == Cardinality(started) + 1
               IN  /\ work_queue' = Append(work_queue,
                                      [ workflow_id |-> workflow_id,
                                        type |-> workflow_type ])
                   /\ started' = started \cup {workflow_id}
                   /\ response' = [ op |-> "start_workflow", success |-> TRUE,
                                    workflow_id |-> workflow_id,
                                    workflow_type |-> workflow_type,
                                    status |-> "started" ]
  /\ UNCHANGED <<analysis_progress, analysis_results, worker_tasks>>
  /\ UNCHANGED <<call_vars, conc_vars>>

\* A free thread of the pool takes the oldest task and enters
\* run_workflow_async: analysis_progress[workflow_id] = {'status': 'running'..}
WorkerBegin(w) ==
  /\ work_queue # << >>
  /\ Head(work_queue).workflow_id = w
  /\ Cardinality(DOMAIN worker_tasks) < max_workers
  /\ work_queue' = Tail(work_queue)
  /\ worker_tasks' = Put(worker_tasks, w,
                         [type |-> Head(work_queue).type, at |-> "run"])
  /\ analysis_progress' = Put(analysis_progress, w,
                              [ status |-> "running", progress |-> 0,
                                steps_completed |-> 0 ])
  /\ UNCHANGED <<analysis_results, started, response>>
  /\ UNCHANGED <<call_vars, conc_vars>>

\* WorkflowRaises for a run_workflow_async without its except block: the
\* exception ends the task and nothing is written.
WorkflowRaises_Unhandled(w) ==
  /\ w \in DOMAIN worker_tasks
  /\ worker_tasks[w].at = "run"
  /\ worker_tasks[w].type \in KnownWorkflowTypes
  /\ worker_tasks' = Without(worker_tasks, w)
  /\ UNCHANGED <<analysis_progress, analysis_results, work_queue, started,
                 response>>
  /\ UNCHANGED <<call_vars, conc_vars>>

\* The workflow function raises at one of its steps, and the except block
\* writes analysis_progress[workflow_id] = {'status': 'failed', ...}
WorkflowRaises(w) ==
  /\ w \in DOMAIN worker_tasks
  /\ worker_tasks[w].at = "run"
  /\ worker_tasks[w].type \in KnownWorkflowTypes
  /\ analysis_progress' = Put(analysis_progress, w,
                              [status |-> "failed", error |-> "str(e)"])
  /\ worker_tasks' = [worker_tasks EXCEPT ![w].at = "except"]
  /\ UNCHANGED <<analysis_results, work_queue, started, response>>
  /\ UNCHANGED <<call_vars, conc_vars>>

\* The workflow function returns, having set 'progress' to 100 on its way,
\* or the type is not one of the three: analysis_results[workflow_id] = result
WorkflowReturns(w) ==
  /\ w \in DOMAIN worker_tasks
  /\ worker_tasks[w].at = "run"
  /\ IF worker_tasks[w].type \in KnownWorkflowTypes
     THEN /\ analysis_progress' =
               [analysis_progress EXCEPT ![w].progress = 100]
          /\ analysis_results' =
               Put(analysis_results, w, [results |-> worker_tasks[w].type])
     ELSE /\ analysis_progress' = analysis_progress
          /\ analysis_results' =
               Put(analysis_results, w, [error |-> "Unknown workflow type"])
  /\ worker_tasks' = [worker_tasks EXCEPT ![w].at = "complete"]
  /\ UNCHANGED <<work_queue, started, response>>
  /\ UNCHANGED <<call_vars, conc_vars>>

\* analysis_progress[workflow_id] = {'status': 'completed', ...}
WorkflowComplete(w) ==
  /\ w \in DOMAIN worker_tasks
  /\ worker_tasks[w].at = "complete"
  /\ analysis_progress' = Put(analysis_progress, w,
                              [ status |-> "completed", progress |-> 100,
                                steps_completed |-> "all" ])
  /\ worker_tasks' = Without(worker_tasks, w)
  /\ UNCHANGED <<analysis_results, work_queue, started, response>>
  /\ UNCHANGED <<call_vars, conc_vars>>

\* The end of the except block: analysis_results[workflow_id] = {'error': ..}
WorkflowExcept(w) ==
  /\ w \in DOMAIN worker_tasks
  /\ worker_tasks[w].at = "except"
  /\ analysis_results' = Put(analysis_results, w, [error |-> "str(e)"])
  /\ worker_tasks' = Without(worker_tasks, w)
  /\ UNCHANGED <<analysis_progress, work_queue, started, response>>
  /\ UNCHANGED <<call_vars, conc_vars>>

\* The steps of the pool on the task of workflow w.
run_workflow_async(w) ==
  \/ WorkerBegin(w)
  \/ WorkflowReturns(w)
  \/ WorkflowRaises(w)
  \/ WorkflowComplete(w)
  \/ WorkflowExcept(w)

\* get_workflow_status: what is answered for workflow_id.
get_workflow_status(workflow_id) ==
  IF workflow_id \notin DOMAIN analysis_progress
  THEN [ op |-> "get_workflow_status", workflow_id |-> workflow_id,
         success |-> FALSE, error |-> "Workflow not found" ]
  ELSE [ op |-> "get_workflow_status", workflow_id |-> workflow_id,
         success |-> TRUE, status |-> analysis_progress[workflow_id],
         results |-> IF /\ workflow_id \in DOMAIN analysis_results
                        /\ analysis_progress[workflow_id].status = "completed"
                     THEN analysis_results[workflow_id]
                     ELSE [none |-> TRUE] ]

\* GET /api/workflows/status/<workflow_id>
GetWorkflowStatus(w) ==
  /\ response' = get_workflow_status(w)
  /\ UNCHANGED <<analysis_progress, analysis_results, work_queue, worker_tasks,
                 started>>
  /\ UNCHANGED <<call_vars, conc_vars>>

NextWorkflows ==
  \/ StartWorkflow
  \/ \E w \in WorkflowIds : run_workflow_async(w)

\* The workflows as the pool runs them.  The threads of the pool are
\* scheduled fairly and the steps of a workflow function end: a step of the
\* pool that stays possible is taken.
SpecWorkflows ==
  /\ Init
  /\ [][NextWorkflows]_vars
  /\ WF_vars(\E w \in WorkflowIds : run_workflow_async(w))

NextWorkflowStatus ==
  \/ NextWorkflows
  \/ \E w \in WorkflowIds : GetWorkflowStatus(w)

\* The workflows with clients asking for their status at any moment.
SpecWorkflowStatus == Init /\ [][NextWorkflowStatus]_vars

(***************************************************************************)
(* The properties checked.                                                 *)
(***************************************************************************)
ServiceOps ==
  {"get_temperature_projection", "get_sea_level_hexagons", "get_heat_island_data"}

\* A direct call of a service has returned a FeatureCollection.
ReturnedCollection == pc = "done" /\ op \in ServiceOps /\ ret.kind = "ok"

\* The cell id a feature carries, under the key its service uses.
FeatureCell(f) ==
  IF "hexId" \in DOMAIN f.properties THEN f.properties.hexId
  ELSE f.properties.hex_id

\* The boundary (lat, lon) pairs swapped to (lon, lat), in order, followed by
\* the first of them.
SwappedClosed(b) ==
  [ i \in 1..(Len(b) + 1) |->
      IF i <= Len(b) THEN <<b[i][2], b[i][1]>> ELSE <<b[1][2], b[1][1]>> ]

\* C1: in every FeatureCollection a service returns, each feature's polygon
\* has one ring, which is the boundary of the feature's cell with every
\* (lat, lon) pair swapped to (lon, lat) in the same order and the first
\* vertex repeated at the end; the ring's first and last positions are equal
\* and it has at least 4 positions when the boundary has at least 3 vertices.
C1_RingFlippedAndClosed ==
  ReturnedCollection =>
    \A i \in 1..Len(ret.value.features) :
      LET f    == ret.value.features[i]
          b    == cell_to_boundary(FeatureCell(f))
          ring == f.geometry.coordinates[1]
      IN  /\ Len(f.geometry.coordinates) = 1
          /\ ring = SwappedClosed(b)
          /\ ring[1] = ring[Len(ring)]
          /\ Len(b) >= 3 => Len(ring) >= 4

\* A returned collection holds the pentagon cell and a hexagon cell.
C1_Witness ==
  /\ ReturnedCollection
  /\ \E i, j \in 1..Len(ret.value.features) :
       /\ Len(ret.value.features[i].geometry.coordinates[1]) = 6
       /\ Len(ret.value.features[j].geometry.coordinates[1]) = 7

\* C2: _simulate_flood_depth returns a depth in [0, max_feet], and every
\* depth_ft that get_sea_level_hexagons emits lies in [0, feet].
C2_DepthWithinFeet ==
  /\ (pc = "done" /\ op = "_simulate_flood_depth") =>
       (0 <= ret.value /\ ret.value <= args.max_feet)
  /\ (pc = "done" /\ op = "get_sea_level_hexagons" /\ ret.kind = "ok") =>
       \A i \in 1..Len(ret.value.features) :
         /\ 0 <= ret.value.features[i].properties.depth_ft
         /\ ret.value.features[i].properties.depth_ft <= args.feet

\* C3: every heatIslandIntensity that get_heat_island_data emits lies in
\* [0, 6.0].
C3_IntensityInRange ==
  (pc = "done" /\ op = "get_heat_island_data" /\ ret.kind = "ok") =>
    \A i \in 1..Len(ret.value.features) :
      /\ 0 <= ret.value.features[i].properties.heatIslandIntensity
      /\ ret.value.features[i].properties.heatIslandIntensity <= 6000

\* A cell whose trend plus noise is below 0 is emitted with intensity 0.
C3_Witness ==
  /\ pc = "done" /\ op = "get_heat_island_data" /\ ret.kind = "ok"
  /\ \E i \in 1..Len(ret.value.features) :
       LET f == ret.value.features[i]
           c == cell_to_latlng(FeatureCell(f))
       IN  /\ f.properties.heatIslandIntensity = 0
           /\ HeatTrend(DistFromCenter(c[1], c[2], args.bounds))
                + HeatNoise(c[1], c[2]) < 0

\* The three rectangles of the claim, in thousandths of a degree.
InCoastalRectangle(lat, lon) ==
  \/ (40400 <= lat /\ lat <= 40900 /\ -74300 <= lon /\ lon <= -73700)
  \/ (25600 <= lat /\ lat <= 25900 /\ -80300 <= lon /\ lon <= -80100)
  \/ (37400 <= lat /\ lat <= 37900 /\ -122600 <= lon /\ lon <= -122200)

\* C4: for a point in none of the three coastal rectangles,
\* _simulate_flood_depth returns exactly 0 whatever max_feet is, and
\* get_sea_level_hexagons emits no feature for a cell centred there.
C4_ZeroOutsideRegions ==
  /\ (pc = "done" /\ op = "_simulate_flood_depth"
        /\ ~InCoastalRectangle(args.lat, args.lon)) => ret.value = 0
  /\ (pc = "done" /\ op = "get_sea_level_hexagons" /\ ret.kind = "ok") =>
       \A i \in 1..Len(ret.value.features) :
         LET c == ret.value.features[i].properties.center
         IN  InCoastalRectangle(c[2], c[1])

\* _simulate_flood_depth was called with max_feet > 0 on a point north of the
\* NYC rectangle, on its reference meridian.
C4_Witness ==
  /\ pc = "done" /\ op = "_simulate_flood_depth"
  /\ ~InCoastalRectangle(args.lat, args.lon)
  /\ args.lon = -74000
  /\ args.max_feet > 0
  /\ ret.value = 0

\* What of a temperature FeatureCollection the scenario's numbers decide.
TemperatureValues(r) ==
  IF r.kind = "error" THEN r
  ELSE [ cells |-> [ i \in 1..Len(r.value.features) |->
                       LET q == r.value.features[i].properties
                       IN  <<q.hexId, q.tempAnomaly, q.tempAnomalyF, q.projected>> ],
         ssp_scenario |-> r.value.properties.ssp_scenario ]

\* C5: a simulated call with a scenario name other than rcp26, rcp45, rcp85
\* returns the cells, tempAnomaly, tempAnomalyF and projected values and the
\* ssp_scenario of the same call with rcp45.
C5_UnknownScenarioIsModerate ==
  (pc = "done" /\ op = "get_temperature_projection" /\ args.use_simulated
     /\ args.scenario \notin {"rcp26", "rcp45", "rcp85"}) =>
    TemperatureValues(ret)
      = TemperatureValues(generate_simulated_data(args.bounds, args.year,
                                                  "rcp45", args.resolution, now))

\* A simulated call with an unrecognized scenario returned features.
C5_Witness ==
  /\ pc = "done" /\ op = "get_temperature_projection" /\ args.use_simulated
  /\ args.scenario \notin {"rcp26", "rcp45", "rcp85"}
  /\ ret.kind = "ok"
  /\ Len(ret.value.features) > 1
  /\ args.year = 2100

\* C6: when a call with use_simulated=False fails on the real-data path, it
\* does not raise the retrieval error; its outcome is that of the simulated
\* path for the same bounds, year, scenario and resolution.
C6_FallbackToSimulated ==
  (pc = "done" /\ op = "get_temperature_projection" /\ ~args.use_simulated
     /\ Logged(log, "Error fetching NASA data")) =>
    /\ ret = generate_simulated_data(args.bounds, args.year, args.scenario,
                                     args.resolution, now)
    /\ ~(ret.kind = "error" /\ ret.error \in RealSteps)

\* The retrieval failed and the call returned the simulated features.
C6_Witness ==
  /\ pc = "done" /\ op = "get_temperature_projection" /\ ~args.use_simulated
  /\ Logged(log, "Error fetching NASA data")
  /\ ret.kind = "ok"
  /\ Len(ret.value.features) > 0
  /\ ret.value.features[1].properties.tempAnomaly
       = Round2(SimulatedAnomaly(40750, -74000, args.year, args.scenario))

\* C7: in every response of the temperature endpoint, using_real_data is true
\* only if the real-data path produced the features returned; after a
\* fallback to the simulated path it is false.
C7_UsingRealDataIsActual ==
  (pc = "done" /\ op = "temperature_projection" /\ ret.status = 200) =>
    (ret.body.metadata.using_real_data
       <=> (Logged(log, "Fetching NASA data")
              /\ ~Logged(log, "Falling back to simulated data")))

\* C8 as claimed: a direct call of any of the three services with a
\* resolution outside [0, 15] fails and returns no FeatureCollection.
C8_OutOfRangeResolutionFails ==
  (pc = "done" /\ op \in ServiceOps /\ args.resolution \notin 0..15) =>
    ret.kind = "error"

\* C8 as amended: with a resolution outside [0, 15] the temperature and the
\* sea-level service fail with h3's resolution error and return no
\* FeatureCollection; the heat-island service takes the nearest of 0 and 15
\* instead, returns the FeatureCollection of that resolution and reports it
\* in metadata.resolution and in every feature.
C8_OutOfRangeResolution ==
  (pc = "done" /\ op \in ServiceOps /\ args.resolution \notin 0..15) =>
    IF op = "get_heat_island_data"
    THEN LET used == IF args.resolution < 0 THEN 0 ELSE 15
         IN  /\ ret.kind = "ok"
             /\ ret.value.metadata.resolution = used
             /\ Len(ret.value.features) = Len(geo_to_cells(args.bounds, used))
             /\ \A i \in 1..Len(ret.value.features) :
                  /\ ret.value.features[i].properties.resolution = used
                  /\ ret.value.features[i].properties.hex_id[1] = used
    ELSE ret = Raise("H3ResDomainError")

\* The heat-island service was called with resolution 16 and returned cells.
C8_Witness ==
  /\ pc = "done" /\ op = "get_heat_island_data"
  /\ args.resolution = 16
  /\ ret.kind = "ok"
  /\ Len(ret.value.features) > 0

\* The top-level block of a FeatureCollection: 'properties' or 'metadata'.
TopBlock(fc) ==
  IF "properties" \in DOMAIN fc THEN fc.properties ELSE fc.metadata

\* C9 as claimed: the top-level block of every returned FeatureCollection
\* holds source, resolution and a UTC timestamp.
C9_BlockHasSourceResolutionTimestamp ==
  ReturnedCollection =>
    /\ {"source", "resolution", "timestamp"} \subseteq DOMAIN TopBlock(ret.value)
    /\ TopBlock(ret.value).timestamp.suffix = "Z"

\* C9 as amended: every returned FeatureCollection has a top-level block with
\* a source.  The 'properties' of the temperature and the sea-level service
\* also hold the UTC time of the call as timestamp, and no resolution; the
\* 'metadata' of the heat-island service holds the resolution used and a
\* date (the caller's, or the local date of the call), and no timestamp.
C9_BlockContents ==
  ReturnedCollection =>
    LET blk == TopBlock(ret.value)
    IN  /\ "source" \in DOMAIN blk
        /\ IF op = "get_heat_island_data"
           THEN /\ DOMAIN ret.value = {"type", "features", "metadata"}
                /\ {"resolution", "date"} \subseteq DOMAIN blk
                /\ "timestamp" \notin DOMAIN blk
                /\ blk.resolution = Max(0, Min(15, args.resolution))
                /\ blk.date = IF args.date \in {"None", ""}
                              THEN LocalDate(now) ELSE args.date
           ELSE /\ DOMAIN ret.value = {"type", "features", "properties"}
                /\ "timestamp" \in DOMAIN blk
                /\ "resolution" \notin DOMAIN blk
                /\ blk.timestamp = [iso |-> now, suffix |-> "Z"]

\* A sea-level call made after the clock has advanced returned a collection.
C9_Witness ==
  /\ ReturnedCollection
  /\ op = "get_sea_level_hexagons"
  /\ now > 0
  /\ Len(ret.value.features) > 0

\* The (lon, lat) centre of a cell.
CentreLonLat(hex_id) ==
  <<cell_to_latlng(hex_id)[2], cell_to_latlng(hex_id)[1]>>

\* C10 as claimed: every feature of every returned FeatureCollection has the
\* properties source, hexId and center, center being the (lon, lat) centre
\* of the cell hexId.
C10_FeatureHasSourceHexIdCenter ==
  ReturnedCollection =>
    \A i \in 1..Len(ret.value.features) :
      LET q == ret.value.features[i].properties
      IN  /\ {"source", "hexId", "center"} \subseteq DOMAIN q
          /\ q.center = CentreLonLat(q.hexId)

\* The fields each service puts in a feature's properties.
FeatureKeys(service) ==
  IF service = "get_temperature_projection"
  THEN {"tempAnomaly", "tempAnomalyF", "baseline", "projected", "center",
        "hexId", "source"}
  ELSE IF service = "get_sea_level_hexagons"
  THEN {"depth_ft", "depth_m", "center", "hexId", "source"}
  ELSE {"hex_id", "heatIslandIntensity", "level", "center", "resolution"}

\* C10 as amended: every feature of the temperature and the sea-level
\* service has the properties source, hexId and center beside its field
\* values; every feature of the heat-island service has hex_id, center and
\* resolution beside them, and neither source nor hexId.  In all three the
\* id is that of a cell of the box at the resolution used, and center is
\* the (lon, lat) centre of that cell.
C10_FeatureProperties ==
  ReturnedCollection =>
    \A i \in 1..Len(ret.value.features) :
      LET q     == ret.value.features[i].properties
          cells == geo_to_cells(args.bounds, Max(0, Min(15, args.resolution)))
      IN  /\ DOMAIN q = FeatureKeys(op)
          /\ \E j \in 1..Len(cells) : FeatureCell(ret.value.features[i]) = cells[j]
          /\ q.center = CentreLonLat(FeatureCell(ret.value.features[i]))

\* The heat-island service returned features, each with hex_id and without
\* source.
C10_Witness ==
  /\ ReturnedCollection
  /\ op = "get_heat_island_data"
  /\ Len(ret.value.features) > 1
  /\ "hex_id" \in DOMAIN ret.value.features[1].properties
  /\ "source" \notin DOMAIN ret.value.features[1].properties

EndpointOps == {"temperature_projection", "sea_level_rise", "urban_heat_island"}

\* The handler went as far as calling its domain service: the service's
\* first logger line was written.
ServiceInvoked ==
  \/ Logged(log, "Using simulated data")
  \/ Logged(log, "Fetching NASA data")
  \/ Logged(log, "Generating sea level hexagons")
  \/ Logged(log, "Generating urban heat island data")

\* The request of the state satisfies the conditions the claim lists for its
\* endpoint.
RequestSatisfiesContract ==
  LET b == args.bounds
  IN  /\ args.missing = {}
      /\ -90000 <= b.south /\ b.south < b.north /\ b.north <= 90000
      /\ -180000 <= b.west /\ b.west < b.east /\ b.east <= 180000
      /\ args.resolution \in (IF op = "sea_level_rise" THEN 6..10 ELSE 4..10)
      /\ op = "temperature_projection" =>
           /\ args.year \in 2020..2100
           /\ args.scenario \in {"rcp26", "rcp45", "rcp85"}

\* C11: on each of the three endpoints the domain service is invoked only if
\* -90 <= south < north <= 90, -180 <= west < east <= 180 and the resolution
\* is in the endpoint's range (and, for temperature, the year is in
\* [2020, 2100] and the scenario one of the three names); any other request
\* is answered with an error and the service is not called.
C11_ServiceOnlyOnValidRequest ==
  (pc = "done" /\ op \in EndpointOps) =>
    /\ ServiceInvoked => RequestSatisfiesContract
    /\ ~RequestSatisfiesContract => (ret.status # 200 /\ ~ServiceInvoked)

\* A returned temperature collection whose cells the simulated path made.
SimulatedCollection ==
  /\ pc = "done" /\ op = "get_temperature_projection" /\ ret.kind = "ok"
  /\ Logged(log, "Generating simulated data for bounds")

\* C13: for every scenario (unrecognized names included), every year and
\* every cell centre with latitude in [-90, 90] and longitude in [-180, 180],
\* the simulated temperature anomaly lies between -5 and +15 degrees C, as
\* computed and as emitted in tempAnomaly.
C13_AnomalyWithinEnvelope ==
  /\ (pc = "done" /\ op = "temp_anomaly") =>
       (-5000 <= ret.value /\ ret.value <= 15000)
  /\ SimulatedCollection =>
       \A i \in 1..Len(ret.value.features) :
         /\ -5000 <= ret.value.features[i].properties.tempAnomaly
         /\ ret.value.features[i].properties.tempAnomaly <= 15000

\* The anomaly of a cell at a pole, in a year after 2100 and under the high
\* scenario: the clamped base trend 4.8 and the polar amplification 3.6.
C13_Witness ==
  /\ pc = "done" /\ op = "temp_anomaly"
  /\ Abs(args.lat) = 90000
  /\ args.year > 2100
  /\ args.scenario = "rcp85"
  /\ ret.value >= 4800 + 3600

\* The sum of tempAnomaly over the first n features.
RECURSIVE SumAnomaly(_, _)
SumAnomaly(features, n) ==
  IF n = 0 THEN 0
  ELSE features[n].properties.tempAnomaly + SumAnomaly(features, n - 1)

\* C14: for the same bounds and resolution, with at least one cell, and
\* year 2100, the simulated projection for rcp85 has a higher mean
\* tempAnomaly over the cells than the one for rcp26 (the same cells, so the
\* means compare as the sums do), every cell being higher under rcp85.
C14_HighScenarioWarmer ==
  (SimulatedCollection /\ args.year = 2100 /\ args.scenario = "rcp85"
     /\ Len(ret.value.features) > 0) =>
    LET low == generate_simulated_data(args.bounds, 2100, "rcp26",
                                       args.resolution, now)
        n   == Len(ret.value.features)
    IN  /\ low.kind = "ok"
        /\ Len(low.value.features) = n
        /\ SumAnomaly(ret.value.features, n) > SumAnomaly(low.value.features, n)
        /\ \A i \in 1..n :
             /\ FeatureCell(ret.value.features[i]) = FeatureCell(low.value.features[i])
             /\ ret.value.features[i].properties.tempAnomaly
                  > low.value.features[i].properties.tempAnomaly

\* A simulated call for rcp85 and 2100 returned several cells.
C14_Witness ==
  /\ SimulatedCollection
  /\ args.year = 2100 /\ args.scenario = "rcp85"
  /\ Len(ret.value.features) > 3

\* C15: for two distances d1 < d2 from the middle of the box, both smaller
\* than the core radius 0.15 degrees, the noise-free intensity at d1 is
\* greater than or equal to the one at d2.
C15_TrendFallsWithDistance ==
  (pc = "done" /\ op = "heat_trend" /\ args.dist < 150) =>
    \A d1 \in 0..(args.dist - 1) : HeatTrend(d1) >= ret.value

\* The trend at the edge of the core is well below the 4.5 of its middle.
C15_Witness ==
  /\ pc = "done" /\ op = "heat_trend"
  /\ args.dist = 149
  /\ ret.value < 100
  /\ HeatTrend(0) = 4500

\* The call of the end-to-end example: bounds {north: 40.76, south: 40.75,
\* east: -73.64, west: -73.65}, feet = 3, resolution 9.
ExampleCall ==
  /\ pc = "done" /\ op = "get_sea_level_hexagons"
  /\ args = [bounds |-> Box(40760, 40750, -73640, -73650), feet |-> 3000,
             resolution |-> 9]

\* C16 as claimed: the bounds of the example lie inside the NYC coastal
\* rectangle and the call returns at least one feature with nonzero
\* depth_ft, every depth_ft being in [0, 3].
C16_ExampleHasFloodedCells ==
  ExampleCall =>
    /\ is_nyc_coastal(args.bounds.south, args.bounds.west)
    /\ is_nyc_coastal(args.bounds.north, args.bounds.east)
    /\ ret.kind = "ok"
    /\ \E i \in 1..Len(ret.value.features) :
         ret.value.features[i].properties.depth_ft > 0
    /\ \A i \in 1..Len(ret.value.features) :
         /\ 0 <= ret.value.features[i].properties.depth_ft
         /\ ret.value.features[i].properties.depth_ft <= 3000

\* C16 as amended: the bounds of the example lie east of the NYC coastal
\* rectangle (its eastern edge is -73.7) and in neither of the other two, so
\* every cell of the box has depth 0 and the call returns a FeatureCollection
\* without features.
C16_ExampleIsDry ==
  ExampleCall =>
    /\ args.bounds.west > -73700
    /\ \A i \in 1..Len(Centres) :
         <<9, i>> \in { geo_to_cells(args.bounds, 9)[j] :
                          j \in 1..Len(geo_to_cells(args.bounds, 9)) }
           => /\ ~InCoastalRectangle(Centres[i][1], Centres[i][2])
              /\ simulate_flood_depth(Centres[i][1], Centres[i][2], 3000) = 0
    /\ ret.kind = "ok"
    /\ ret.value.type = "FeatureCollection"
    /\ ret.value.features = << >>

\* The example call returned, and its box holds a cell.
C16_Witness ==
  /\ ExampleCall
  /\ ret.kind = "ok"
  /\ Len(geo_to_cells(args.bounds, 9)) > 0

\* The number of distinct points of a sequence of points.
DistinctPoints(b) == Cardinality({ b[i] : i \in 1..Len(b) })

\* C17: a serializer given a cell whose boundary has fewer than 3 distinct
\* points (an empty boundary included) fails with a degenerate-geometry
\* error and emits no feature for that cell; no FeatureCollection returned,
\* by a serializer or by a service, holds a ring with fewer than 3 distinct
\* points.  Any error raised counts here as the failure claimed.
C17_DegenerateBoundaryFails ==
  /\ (pc = "done" /\ op = "_to_geojson" /\ DistinctPoints(args.boundary) < 3) =>
       ret.kind = "error"
  /\ (pc = "done" /\ op \in ServiceOps \cup {"_to_geojson"} /\ ret.kind = "ok") =>
       \A i \in 1..Len(ret.value.features) :
         DistinctPoints(ret.value.features[i].geometry.coordinates[1]) >= 3

\* C18: a direct call of a service with bounds that violate south < north or
\* west < east fails with an error and returns no FeatureCollection.
C18_InvertedBoundsFail ==
  (pc = "done" /\ op \in ServiceOps
     /\ ~(args.bounds.south < args.bounds.north
            /\ args.bounds.west < args.bounds.east)) =>
    ret.kind = "error"

\* The resolution a service hands to h3: the heat-island service clamps it.
ResolutionUsed ==
  IF op = "get_heat_island_data" THEN Max(0, Min(15, args.resolution))
  ELSE args.resolution

\* C19: each of the three get_* calls rejects a (bounds, resolution)
\* combination whose cell count exceeds a maximum with a TooManyCells error,
\* and never runs its per-cell loop on more cells than that.  Whatever the
\* maximum is, it is below the number of cells there are: a cap that no
\* combination exceeds rejects nothing.
C19_TooManyCellsRejected ==
  (pc = "done" /\ op \in ServiceOps /\ H3ResValid(ResolutionUsed)) =>
    \E cap \in 1..(Len(Centres) - 1) :
      LET count == Len(geo_to_cells(args.bounds, ResolutionUsed))
      IN  IF count > cap THEN ret = Raise("TooManyCells")
          ELSE ret.kind = "ok" => Len(ret.value.features) <= cap

\* How many lines m the log holds.
CountLogged(lg, m) == Cardinality({ i \in 1..Len(lg) : lg[i].msg = m })

\* C20: in one call of get_temperature_projection the real-data path is
\* attempted at most once; after its failure the simulated path is run
\* exactly once, as the last thing the call does, and the real path is not
\* attempted again; what the simulated path returns or raises is what the
\* caller gets, its own failure included.
C20_OneShotFallback ==
  (pc = "done" /\ op = "get_temperature_projection") =>
    LET sim == generate_simulated_data(args.bounds, args.year, args.scenario,
                                       args.resolution, now)
    IN  /\ CountLogged(log, "Fetching NASA data") <= 1
        /\ CountLogged(log, "Opening dataset") <= 1
        /\ CountLogged(log, "Error fetching NASA data") <= 1
        /\ CountLogged(log, "Generating simulated data for bounds") <= 1
        /\ Logged(log, "Error fetching NASA data") =>
             /\ log[1].msg = "Fetching NASA data"
             /\ CountLogged(log, "Generating simulated data for bounds") = 1
             /\ log[Len(log)].msg = "Generating simulated data for bounds"
             /\ ret = sim
             /\ sim.kind = "error" => ret = Raise(sim.error)

\* The retrieval failed at the remote dataset and the simulated path failed
\* too, on the resolution: the caller got the error of the simulated path.
C20_Witness ==
  /\ pc = "done" /\ op = "get_temperature_projection" /\ ~args.use_simulated
  /\ \E i \in 1..Len(log) :
       log[i].msg = "Error fetching NASA data" /\ log[i].error = "open"
  /\ args.resolution = 16
  /\ ret = Raise("H3ResDomainError")

\* What the request would get if it were served alone, its cells taken in
\* the order h3 lists them.
ServedAlone(service, bounds) ==
  IF service = "NASAClimateService"
  THEN generate_simulated_data(bounds, 2050, "rcp45", 9, now)
  ELSE IF service = "NOAASeaLevelService"
  THEN get_sea_level_hexagons(bounds, 3000, 9, now)
  ELSE get_heat_island_data(bounds, "None", 9, now)

\* The features of a collection, as a set.
FeatureSet(fc) == { fc.features[i] : i \in 1..Len(fc.features) }

\* C21: under any interleaving of the requests served by the shared service
\* instances, and whatever the order in which a request's cells are
\* processed, a request is answered with the features it would get if it ran
\* alone: as many of them, and the same ones.
C21_RequestsDoNotInterfere ==
  \A r \in Req :
    requests[r].phase = "done" =>
      LET alone == ServedAlone(requests[r].service, requests[r].bounds)
          got   == requests[r].result
      IN  /\ got.kind = "ok"
          /\ alone.kind = "ok"
          /\ Len(got.value.features) = Len(alone.value.features)
          /\ FeatureSet(got.value) = FeatureSet(alone.value)

\* A request was answered with two features, not in the order h3 lists the
\* cells, while another request was in the middle of its loop.
C21_Witness ==
  \E r, q \in Req :
    /\ r # q
    /\ requests[r].phase = "done"
    /\ Len(requests[r].result.value.features) = 2
    /\ requests[r].result.value.features
         # ServedAlone(requests[r].service, requests[r].bounds).value.features
    /\ requests[q].phase = "loop"
    /\ requests[q].todo # {}
    /\ hexagon_list[q] # << >>

\* The time range of the dataset a real-data call opened.
OpenedTimeRange ==
  LET i == CHOOSE j \in 1..Len(log) : log[j].msg = "Opening dataset"
  IN  log[i].path.time_range

\* The year of the call or of the request of the state.
CalledYear == args.year

\* C22: for every year the temperature endpoint accepts (2020 to 2100),
\* _get_time_range returns a 20-year range A-B with A <= year <= B: the
\* dataset a real-data call opens is the chunk that holds its year.
C22_TimeRangeHoldsYear ==
  (pc = "done" /\ op \in {"get_temperature_projection", "temperature_projection"}
     /\ Logged(log, "Opening dataset") /\ CalledYear \in 2020..2100) =>
    /\ OpenedTimeRange[2] - OpenedTimeRange[1] + 1 = 20
    /\ OpenedTimeRange[1] <= CalledYear
    /\ CalledYear <= OpenedTimeRange[2]

\* C23: for each of the three scenarios the base warming trend of the
\* simulated anomaly (the anomaly less its spatial terms) is the scenario's
\* temp_increase_2050 of /api/climate/info at year 2050 and its
\* temp_increase_2100 at year 2100.
C23_BaseTrendAtAnchorYears ==
  (pc = "done" /\ op = "temp_anomaly"
     /\ args.scenario \in {"rcp26", "rcp45", "rcp85"}
     /\ args.year \in {2050, 2100}) =>
    ret.value - SpatialTerms(args.lat, args.lon)
      = IF args.year = 2050
        THEN climate_info_scenarios(args.scenario).temp_increase_2050
        ELSE climate_info_scenarios(args.scenario).temp_increase_2100

\* The reference meridian of the coastal rectangle that holds (lat, lon).
ReferenceMeridian(lat, lon) ==
  IF 40400 <= lat /\ lat <= 40900 THEN -74000
  ELSE IF 25600 <= lat /\ lat <= 25900 THEN -80200
  ELSE -122400

\* C24: inside a coastal rectangle the flood depth before noise is max_feet
\* on the region's reference meridian and falls linearly with the longitude
\* distance to 20% of max_feet at 0.1 degree from it; beyond 0.1 degree the
\* depth is 0.  (The noise and the clamp to [0, max_feet] come after.)
C24_FloodBandIsTenthOfDegree ==
  (pc = "done" /\ op = "_simulate_flood_depth"
     /\ InCoastalRectangle(args.lat, args.lon)) =>
    LET dist == Abs(args.lon - ReferenceMeridian(args.lat, args.lon))
        base == (args.max_feet * (1000 - 8 * dist)) \div 1000
    IN  IF dist > 100 THEN ret.value = 0
        ELSE ret.value
               = Max(0, Min(args.max_feet, base + FloodNoise(args.lat, args.lon)))

\* The cells of the box of a get_sea_level_hexagons call.
SeaLevelCells == get_hexagons_in_bounds(args.bounds, args.resolution).value

\* The cells among a sequence of features.
EmittedCells(fc) ==
  { fc.features[i].properties.hexId : i \in 1..Len(fc.features) }

\* The depth _simulate_flood_depth gives the centre of a cell.
CellDepth(hex_id, feet) ==
  simulate_flood_depth(cell_to_latlng(hex_id)[1], cell_to_latlng(hex_id)[2], feet)

\* C25 as claimed: every feature get_sea_level_hexagons emits has depth_ft
\* strictly greater than 0, and every cell whose depth is 0 is omitted from
\* the collection.
C25_EmittedDepthPositive ==
  (pc = "done" /\ op = "get_sea_level_hexagons" /\ ret.kind = "ok") =>
    /\ \A i \in 1..Len(ret.value.features) :
         ret.value.features[i].properties.depth_ft > 0
    /\ \A j \in 1..Len(SeaLevelCells) :
         CellDepth(SeaLevelCells[j], args.feet) = 0
           => SeaLevelCells[j] \notin EmittedCells(ret.value)

\* C25 as amended: the cells get_sea_level_hexagons emits are exactly the
\* cells of the box whose simulated depth is strictly greater than 0, each
\* once, and every cell whose depth is 0 is omitted; the depth_ft emitted is
\* that depth rounded to two decimals, so it is 0.0 for a depth below 0.005.
C25_EmittedCellsAreFlooded ==
  (pc = "done" /\ op = "get_sea_level_hexagons" /\ ret.kind = "ok") =>
    /\ EmittedCells(ret.value)
         = { SeaLevelCells[j] : j \in { k \in 1..Len(SeaLevelCells) :
                                  CellDepth(SeaLevelCells[k], args.feet) > 0 } }
    /\ Cardinality(EmittedCells(ret.value)) = Len(ret.value.features)
    /\ \A i \in 1..Len(ret.value.features) :
         LET q == ret.value.features[i].properties
         IN  /\ q.depth_ft = Round2(CellDepth(q.hexId, args.feet))
             /\ q.depth_ft >= 0

\* A call returned a feature whose depth_ft is 0.0 and left out a cell of
\* its box whose depth is 0.
C25_Witness ==
  /\ pc = "done" /\ op = "get_sea_level_hexagons" /\ ret.kind = "ok"
  /\ \E i \in 1..Len(ret.value.features) :
       /\ ret.value.features[i].properties.depth_ft = 0
       /\ CellDepth(ret.value.features[i].properties.hexId, args.feet) > 0
  /\ \E j \in 1..Len(SeaLevelCells) :
       /\ CellDepth(SeaLevelCells[j], args.feet) = 0
       /\ SeaLevelCells[j] \notin EmittedCells(ret.value)

\* C26: the _to_geojson of each service is a pure function of its
\* arguments: a call returns what the same call, on the same cell list and
\* the same metadata arguments (date = None for the heat-island one), returns
\* at any other instant; no clock is read.
C26_SerializerIsPure ==
  (pc = "done" /\ op = "_to_geojson") =>
    \A t \in 0..MaxClock : ret = to_geojson(args.service, args.boundary, t)

\* C27: in every feature get_heat_island_data emits, the level is the bucket
\* of the emitted two-decimal heatIslandIntensity under the thresholds 0.5,
\* 1.5, 3.0 and 4.5: rounding the intensity for output never puts the
\* emitted value in a different bucket from the emitted level.
C27_LevelIsBucketOfEmitted ==
  (pc = "done" /\ op = "get_heat_island_data" /\ ret.kind = "ok") =>
    \A i \in 1..Len(ret.value.features) :
      LET q == ret.value.features[i].properties
      IN  q.level =
            IF q.heatIslandIntensity < 500 THEN "none"
            ELSE IF q.heatIslandIntensity < 1500 THEN "low"
            ELSE IF q.heatIslandIntensity < 3000 THEN "moderate"
            ELSE IF q.heatIslandIntensity < 4500 THEN "high"
            ELSE "extreme"

\* A real-data call whose retrieval succeeded and whose box holds a cell at
\* which sampling the grid fails.
SamplingFailedForACell ==
  /\ pc = "done" /\ op = "get_temperature_projection" /\ ~args.use_simulated
  /\ args.env.fail = "none"
  /\ get_hexagons_in_bounds(args.bounds, args.resolution).kind = "ok"
  /\ \E i \in 1..Len(get_hexagons_in_bounds(args.bounds, args.resolution).value) :
       get_hexagons_in_bounds(args.bounds, args.resolution).value[i][2]
         \in args.env.gaps

\* C28: on the real-data path, when sampling the temperature grid fails for
\* a cell, the call neither raises nor falls back to the simulated path; it
\* emits every cell of the box, the cell that failed with tempAnomaly 0.0 and
\* projected 14.5, the others with their sampled values.
C28_SamplingFailureGivesZero ==
  SamplingFailedForACell =>
    /\ ret.kind = "ok"
    /\ ~Logged(log, "Error fetching NASA data")
    /\ ~Logged(log, "Falling back to simulated data")
    /\ Len(ret.value.features)
         = Len(get_hexagons_in_bounds(args.bounds, args.resolution).value)
    /\ \A i \in 1..Len(ret.value.features) :
         LET q == ret.value.features[i].properties
             c == cell_to_latlng(q.hexId)
         IN  /\ q.hexId
                  = get_hexagons_in_bounds(args.bounds, args.resolution).value[i]
             /\ IF q.hexId[2] \in args.env.gaps
                THEN q.tempAnomaly = 0 /\ q.projected = 14500
                ELSE q.tempAnomaly = Round2(SampledAnomaly(c[1], c[2]))

\* Sampling failed for one cell of three: it was emitted with anomaly 0, and
\* another cell of the same call with a sampled anomaly other than 0.
C28_Witness ==
  /\ SamplingFailedForACell
  /\ ret.kind = "ok"
  /\ Len(ret.value.features) = 3
  /\ \E i, j \in 1..Len(ret.value.features) :
       /\ ret.value.features[i].properties.hexId[2] \in args.env.gaps
       /\ ret.value.features[i].properties.tempAnomaly = 0
       /\ ret.value.features[j].properties.hexId[2] \notin args.env.gaps
       /\ ret.value.features[j].properties.tempAnomaly # 0

\* C29: once start_workflow has answered success with a workflow_id,
\* get_workflow_status never answers 'Workflow not found' for that id,
\* however the request threads and the threads of the pool interleave.  (An
\* answer of start_workflow replaces `response`, so a 'not found' seen here
\* for a started id was given after the id was returned.)
C29_StartedWorkflowIsFound ==
  (response.op = "get_workflow_status" /\ response.workflow_id \in started) =>
    response.success

\* The status of workflow w is 'completed' or 'failed'.
Terminal(w) ==
  /\ w \in DOMAIN analysis_progress
  /\ analysis_progress[w].status \in {"completed", "failed"}

====
